---- MODULE Spec2Model ----
(***************************************************************************)
(* A model of the path tracer: Vector3D, Ray, Sphere, World, Material      *)
(* scattering, Camera::ray_color, the sampler AntiAliasing::anti_alias,    *)
(* the frame driver Camera::render, and the program entry main.            *)
(*                                                                         *)
(* Numbers.  The program computes in f64 (geometry) and f32 (colour).  The *)
(* model computes in exact rational arithmetic: a number is a pair         *)
(* <<n, d>> in lowest terms with d > 0.  Square roots are exact: the       *)
(* inputs are drawn so that every discriminant and every squared length    *)
(* whose root is taken is the square of a rational (RSqrt has no value     *)
(* otherwise, and TLC would stop).  f64::MAX is the pair <<1, 0>>, which   *)
(* the comparison RLt orders above every other number of the model.        *)
(*                                                                         *)
(* Option<T> is a sequence: None is <<>> and Some(x) is <<x>>.             *)
(***************************************************************************)
EXTENDS Integers, Sequences, FiniteSets, TLC

VARIABLES
    world,       \* World.objects: the ordered collection of spheres
    pc,          \* position of the running call
    ray,         \* the ray argument of the running call
    t_min,       \* lower bound passed to hit
    t_max,       \* upper bound passed to hit
    obj,         \* index of the sphere whose hit was called (0: none yet)
    hit,         \* Option<ObjectHitRecord>: result of the last hit call
    depth,       \* depth argument of the running ray_color call
    p,           \* loop variable of random_in_unit_sphere
    scattered,   \* Option<(Ray, Srgb)>: result of the last scatter call
    stack,       \* albedos of the suspended ray_color frames, innermost last
    ret,         \* colour returned by the innermost finished ray_color call
    color,       \* colour returned by the top-level ray_color call
    depth0,      \* depth the top-level ray_color call was given
    calls,       \* number of ray_color calls entered so far (top level included)
    hitCalls,    \* number of World::hit calls made so far
    scatterCalls, \* number of Material::scatter calls made so far
    image_width,  \* Camera.image_width
    image_height, \* Camera.image_height
    technique,    \* AntiAliasing.technique
    samples_per_pixel, \* AntiAliasing.samples_per_pixel
    pixel_x,      \* x of Camera::render's inner loop
    pixel_y,      \* y of Camera::render's outer loop
    pixels,       \* the byte buffer of Camera::render (pixels[o + 1] is offset o)
    writes,       \* the offsets Camera::render has stored to, in order
    traces,       \* the ray_color calls of the last anti_alias call, in order
    draws,        \* number of rng draws of the last anti_alias call
    args,         \* env::args() of main
    file,         \* state of the output file
    result,       \* Result returned by write_image
    stdout,       \* lines main has printed
    ray_args,     \* <<origin, direction>> given to Ray::new
    at_t,         \* t given to Ray::at
    at_ret        \* value returned by Ray::at

\* The frame driver and sampler, the program entry, and the Ray calls.
renderVars ==
    <<image_width, image_height, technique, samples_per_pixel, pixel_x, pixel_y,
      pixels, writes, traces, draws>>

mainVars ==
    <<args, file, result, stdout>>

rayVars ==
    <<ray_args, at_t, at_ret>>

frameVars ==
    <<renderVars, mainVars, rayVars>>

\* The radiance estimator's variables other than pc, ray and color.
estimatorVars ==
    <<world, t_min, t_max, obj, hit, depth, p, scattered, stack, ret, depth0,
      calls, hitCalls, scatterCalls>>

vars ==
    <<world, pc, ray, t_min, t_max, obj, hit, depth, p, scattered, stack,
      ret, color, depth0, calls, hitCalls, scatterCalls, frameVars>>

----------------------------------------------------------------------------
(* Exact rational arithmetic standing for the program's floating point.    *)

\* The operators below name each argument once, binding its value with
\* a \in {x}: an argument is then evaluated once, however deep the
\* expression passed for it.

The(S) ==
    CHOOSE v \in S : TRUE

Abs(n) ==
    IF n < 0 THEN -n ELSE n

RECURSIVE GCD(_, _)
GCD(a, b) ==
    IF b = 0 THEN a ELSE GCD(b, a % b)

Norm(n, d) ==
    The({ (IF j < 0 THEN <<(-i) \div GCD(Abs(i), Abs(j)), (-j) \div GCD(Abs(i), Abs(j))>>
                    ELSE <<i \div GCD(Abs(i), Abs(j)), j \div GCD(Abs(i), Abs(j))>>) :
          i \in {n}, j \in {d} })

Q(n, d) ==
    Norm(n, d)

R(n) ==
    <<n, 1>>

Zero ==
    R(0)

One ==
    R(1)

RAdd(x, y) ==
    The({ Norm(a[1] * b[2] + b[1] * a[2], a[2] * b[2]) : a \in {x}, b \in {y} })

RSub(x, y) ==
    The({ Norm(a[1] * b[2] - b[1] * a[2], a[2] * b[2]) : a \in {x}, b \in {y} })

RMul(x, y) ==
    The({ Norm(a[1] * b[1], a[2] * b[2]) : a \in {x}, b \in {y} })

RDiv(x, y) ==
    The({ Norm(a[1] * b[2], a[2] * b[1]) : a \in {x}, b \in {y} })

RNeg(x) ==
    The({ <<-a[1], a[2]>> : a \in {x} })

RLt(x, y) ==
    \E a \in {x}, b \in {y} : a[1] * b[2] < b[1] * a[2]

RLe(x, y) ==
    ~RLt(y, x)

IsSquare(n) ==
    \E m \in {n} : \E k \in 0..m : k * k = m

ISqrt(n) ==
    The({ CHOOSE k \in 0..m : k * k = m : m \in {n} })

RIsSquare(x) ==
    \E a \in {x} : a[1] >= 0 /\ IsSquare(a[1]) /\ IsSquare(a[2])

RSqrt(x) ==
    The({ <<ISqrt(a[1]), ISqrt(a[2])>> : a \in {x} })

F64_MAX ==
    <<1, 0>>

----------------------------------------------------------------------------
(* Vector3D: a triple of numbers.                                          *)

Vec(x, y, z) ==
    <<x, y, z>>

VInt(x, y, z) ==
    <<R(x), R(y), R(z)>>

Add(u, v) ==
    The({ <<RAdd(a[1], b[1]), RAdd(a[2], b[2]), RAdd(a[3], b[3])>> :
          a \in {u}, b \in {v} })

Sub(u, v) ==
    The({ <<RSub(a[1], b[1]), RSub(a[2], b[2]), RSub(a[3], b[3])>> :
          a \in {u}, b \in {v} })

MulScalar(u, k) ==
    The({ <<RMul(a[1], b), RMul(a[2], b), RMul(a[3], b)>> : a \in {u}, b \in {k} })

DivScalar(u, k) ==
    The({ <<RDiv(a[1], b), RDiv(a[2], b), RDiv(a[3], b)>> : a \in {u}, b \in {k} })

Neg(u) ==
    The({ <<RNeg(a[1]), RNeg(a[2]), RNeg(a[3])>> : a \in {u} })

Dot(u, v) ==
    The({ RAdd(RAdd(RMul(a[1], b[1]), RMul(a[2], b[2])), RMul(a[3], b[3])) :
          a \in {u}, b \in {v} })

LengthSquared(u) ==
    The({ RAdd(RAdd(RMul(a[1], a[1]), RMul(a[2], a[2])), RMul(a[3], a[3])) :
          a \in {u} })

----------------------------------------------------------------------------
(* Ray and Option.                                                         *)

Ray(origin, direction) ==
    [origin |-> origin, direction |-> direction]

AtScalesOrigin(r, t) ==
    Add(MulScalar(r.origin, t), r.direction)

At(r, t) ==
    Add(r.origin, MulScalar(r.direction, t))

None ==
    <<>>

Some(x) ==
    <<x>>

IsSome(o) ==
    o # <<>>

----------------------------------------------------------------------------
(* Sphere::hit.                                                            *)

Sphere(center, radius, material) ==
    [center |-> center, radius |-> radius, material |-> material]

\* Mutant of InRange: the upper bound admitted, temp_soln <= t_max.
InRangeClosedAbove(temp_soln, tmin, tmax) ==
    RLe(temp_soln, tmax) /\ RLt(tmin, temp_soln)

InRange(temp_soln, tmin, tmax) ==
    RLt(temp_soln, tmax) /\ RLt(tmin, temp_soln)

\* Mutant of FrontFace: the sign of the test reversed.
FrontFacePositive(direction, normal) ==
    RLt(Zero, Dot(direction, normal))

FrontFace(direction, normal) ==
    RLt(Dot(direction, normal), Zero)

\* Mutant of StoredNormal: the two branches exchanged.
StoredNormalSwapped(front_face, normal) ==
    IF front_face THEN Neg(normal) ELSE normal

StoredNormal(front_face, normal) ==
    IF front_face THEN normal ELSE Neg(normal)

Discriminant(s, r) ==
    LET sphere_to_ray == Sub(r.origin, s.center)
        a == LengthSquared(r.direction)
        half_b == Dot(sphere_to_ray, r.direction)
        c == RSub(LengthSquared(sphere_to_ray), RMul(s.radius, s.radius))
    IN  RSub(RMul(half_b, half_b), RMul(a, c))

SphereHit(s, r, tmin, tmax) ==
    LET sphere_to_ray == Sub(r.origin, s.center)
        a == LengthSquared(r.direction)
        half_b == Dot(sphere_to_ray, r.direction)
        discriminant == Discriminant(s, r)
    IN  IF RLt(Zero, discriminant)
        THEN LET root == RSqrt(discriminant)
                 temp_soln == RDiv(RSub(RNeg(half_b), root), a)
             IN  IF InRange(temp_soln, tmin, tmax)
                 THEN LET intersect_point == At(r, temp_soln)
                          normal == DivScalar(Sub(intersect_point, s.center), s.radius)
                          front_face == FrontFace(r.direction, normal)
                      IN  Some([t |-> temp_soln,
                                point |-> intersect_point,
                                normal |-> StoredNormal(front_face, normal),
                                front_face |-> front_face,
                                material |-> s.material])
                 ELSE None
        ELSE None

----------------------------------------------------------------------------
(* World::hit: the loop over the objects, in insertion order.              *)

RECURSIVE WorldHitFrom(_, _, _, _, _, _)
WorldHitFrom(objects, i, r, tmin, closest_so_far, hit_record) ==
    IF i > Len(objects)
    THEN hit_record
    ELSE LET h == SphereHit(objects[i], r, tmin, closest_so_far)
         IN  IF IsSome(h)
             THEN WorldHitFrom(objects, i + 1, r, tmin, h[1].t, h)
             ELSE WorldHitFrom(objects, i + 1, r, tmin, closest_so_far, hit_record)

WorldHit(objects, r, tmin, tmax) ==
    WorldHitFrom(objects, 1, r, tmin, tmax, None)

----------------------------------------------------------------------------
(* Colours and materials.                                                  *)

Srgb(red, green, blue) ==
    <<red, green, blue>>

Black ==
    Srgb(Zero, Zero, Zero)

Lambertian(albedo) ==
    [kind |-> "Lambertian", albedo |-> albedo]

Metal(albedo, roughness) ==
    [kind |-> "Metal", albedo |-> albedo, roughness |-> roughness]

Grey ==
    Srgb(Q(1, 2), Q(1, 2), Q(1, 2))

Red ==
    Srgb(One, Zero, Zero)

Purple ==
    Srgb(Q(1, 2), Zero, Q(1, 2))

White ==
    Srgb(One, One, One)

Overbright ==
    Srgb(Q(3, 2), One, One)

----------------------------------------------------------------------------
(* Vector3D::length, unit_vector, near_zero and the rejection test of      *)
(* random_in_unit_sphere.                                                  *)

Length(u) ==
    RSqrt(LengthSquared(u))

UnitVector(u) ==
    DivScalar(u, Length(u))

\* f64::EPSILON is 2^-52 = 1 / (67108864 * 67108864).
SqrtEpsilonInv ==
    67108864

\* |x| < f64::EPSILON, for x = n / d: |n| * 2^52 < d.
BelowEpsilon(x) ==
    Abs(x[1]) <= ((x[2] - 1) \div SqrtEpsilonInv) \div SqrtEpsilonInv

NearZero(u) ==
    BelowEpsilon(u[1]) /\ BelowEpsilon(u[2]) /\ BelowEpsilon(u[3])

InUnitSphere(q) ==
    RLt(LengthSquared(q), One)

----------------------------------------------------------------------------
(* Material::scatter, given the vector random_in_unit_sphere returned.     *)

Reflect(vec_1, vec_2) ==
    Sub(vec_1, MulScalar(vec_2, RMul(R(2), Dot(vec_1, vec_2))))

\* Mutant of LambertianDirection: the near_zero substitution left out.
LambertianDirectionUnchecked(normal, rnd) ==
    Add(normal, rnd)

LambertianDirection(normal, rnd) ==
    LET scatter_direction == Add(normal, rnd)
    IN  IF NearZero(scatter_direction) THEN normal ELSE scatter_direction

LambertianScatter(m, r, hit_record, rnd) ==
    LET scatter_direction == LambertianDirection(hit_record.normal, rnd)
        target == Add(hit_record.point, scatter_direction)
        scattered_ray == Ray(hit_record.point, Sub(target, hit_record.point))
        attenuation == m.albedo
    IN  Some(<<scattered_ray, attenuation>>)

\* Mutant of MetalLeaves: a grazing direction (dot = 0) kept.
MetalLeavesOrGrazes(direction, normal) ==
    RLe(Zero, Dot(direction, normal))

MetalLeaves(direction, normal) ==
    RLt(Zero, Dot(direction, normal))

MetalScatter(m, r, hit_record, rnd) ==
    LET reflected == Reflect(r.direction, hit_record.normal)
        rough_direction == Add(reflected, MulScalar(rnd, m.roughness))
        scattered_ray == Ray(hit_record.point, rough_direction)
        attenuation == m.albedo
    IN  IF MetalLeaves(scattered_ray.direction, hit_record.normal)
        THEN Some(<<scattered_ray, attenuation>>)
        ELSE None

MaterialScatter(m, r, hit_record, rnd) ==
    IF m.kind = "Lambertian"
    THEN LambertianScatter(m, r, hit_record, rnd)
    ELSE MetalScatter(m, r, hit_record, rnd)

----------------------------------------------------------------------------
(* Camera::ray_color: its constants and the pieces of its body.            *)

ShadowAcneTMin ==
    Q(1, 1000)

\* Mutant of DepthExhausted: the cut-off one call late.
DepthExhaustedLate(d) ==
    d < 0

DepthExhausted(d) ==
    d <= 0

\* Mutant of NextDepth: the depth passed on unchanged.
NextDepthSame(d) ==
    d

NextDepth(d) ==
    d - 1

\* Mutant of Attenuate: the albedo added instead of multiplied.
AttenuateAdd(albedo, target_color) ==
    Srgb(RAdd(albedo[1], target_color[1]),
         RAdd(albedo[2], target_color[2]),
         RAdd(albedo[3], target_color[3]))

Attenuate(albedo, target_color) ==
    Srgb(RMul(albedo[1], target_color[1]),
         RMul(albedo[2], target_color[2]),
         RMul(albedo[3], target_color[3]))

SkyColor(r) ==
    LET t == RMul(Q(1, 2), RAdd(UnitVector(r.direction)[2], One))
        u == RSub(One, t)
    IN  Srgb(RAdd(RMul(u, One), RMul(t, Q(1, 2))),
             RAdd(RMul(u, One), RMul(t, Q(7, 10))),
             RAdd(RMul(u, One), RMul(t, One)))

----------------------------------------------------------------------------
(* Bounds of the model and the inputs of the hit calls.                    *)

MaxObjects ==
    2

SeqsUpTo(S, n) ==
    UNION {[1..k -> S] : k \in 0..n}

\* Spheres on, beside and away from the line x = 0, z = 0, on which the
\* rays of HitRays start.  Two of them are entered at the same point
\* (0, -2, 0) by a ray coming down that line, a third is entered there
\* obliquely, one is tangent to the line, one encloses the origin.
HitSpheres ==
    { Sphere(VInt(0, -3, 0), R(1), Lambertian(Grey)),
      Sphere(VInt(0, -4, 0), R(2), Metal(Red, Zero)),
      Sphere(VInt(0, 0, 0), R(2), Lambertian(White)),
      Sphere(VInt(1, -3, 0), R(1), Metal(Purple, One)),
      Sphere(VInt(3, -6, 0), R(5), Metal(Grey, Q(1, 2))),
      Sphere(VInt(3, 3, 0), R(1), Lambertian(Red)) }

HitRays ==
    { Ray(o, d) : o \in {VInt(0, 0, 0), VInt(0, -3, 0), VInt(0, 1, 0)},
                  d \in {VInt(0, -1, 0), VInt(0, 1, 0), VInt(0, -2, 0)} }
    \cup { Ray(VInt(0, 0, 0), VInt(3, -4, 0)) }

HitTMin ==
    { R(-3), Zero, Q(1, 1000), One }

HitTMax ==
    { R(2), R(5), F64_MAX }

\* Every square root Sphere::hit takes for this world and ray is exact.
ExactSqrt(objects, r) ==
    \A i \in 1..Len(objects) :
        LET disc == Discriminant(objects[i], r)
        IN  RLt(Zero, disc) => RIsSquare(disc)

Origin3 ==
    VInt(0, 0, 0)

\* The frame driver, the program entry and the Ray calls are not running.
IdleRender ==
    /\ image_width = 0
    /\ image_height = 0
    /\ technique = "None"
    /\ samples_per_pixel = 0
    /\ pixel_x = 0
    /\ pixel_y = 0
    /\ pixels = <<>>
    /\ writes = <<>>
    /\ traces = <<>>
    /\ draws = 0

IdleMain ==
    /\ args = <<>>
    /\ file = "absent"
    /\ result = "unset"
    /\ stdout = <<>>

IdleRay ==
    /\ ray_args = <<Origin3, Origin3>>
    /\ at_t = Zero
    /\ at_ret = Origin3

IdleFrame ==
    /\ IdleRender
    /\ IdleMain
    /\ IdleRay

IdleRest ==
    /\ depth = 0
    /\ p = Origin3
    /\ scattered = None
    /\ stack = <<>>
    /\ ret = Black
    /\ color = Black
    /\ depth0 = 0
    /\ calls = 0
    /\ hitCalls = 0
    /\ scatterCalls = 0

InitHit ==
    /\ world \in SeqsUpTo(HitSpheres, MaxObjects)
    /\ ray \in HitRays
    /\ ExactSqrt(world, ray)
    /\ t_min \in HitTMin
    /\ t_max \in HitTMax
    /\ RLt(t_min, t_max)
    /\ obj = 0
    /\ hit = None
    /\ pc = "query"
    /\ IdleRest
    /\ IdleFrame

CallSphereHit ==
    /\ pc = "query"
    /\ \E i \in 1..Len(world) :
        /\ obj' = i
        /\ hit' = SphereHit(world[i], ray, t_min, t_max)
    /\ pc' = "sphere"
    /\ UNCHANGED <<world, ray, t_min, t_max, depth, p, scattered, stack, ret,
                   color, depth0, calls, hitCalls, scatterCalls>>
    /\ UNCHANGED frameVars

CallWorldHit ==
    /\ pc = "query"
    /\ hit' = WorldHit(world, ray, t_min, t_max)
    /\ pc' = "world"
    /\ UNCHANGED <<world, ray, t_min, t_max, obj, depth, p, scattered, stack,
                   ret, color, depth0, calls, hitCalls, scatterCalls>>
    /\ UNCHANGED frameVars

NextHit ==
    \/ CallSphereHit
    \/ CallWorldHit

HitSpec ==
    InitHit /\ [][NextHit]_vars

----------------------------------------------------------------------------
(* The scatter call: the rejection loop of random_in_unit_sphere, then the *)
(* material's scatter law.  Samples stands for what Vector3D::random(-1, 1)*)
(* can return: every component in [-1, 1).                                 *)

DrawReject(Samples) ==
    /\ pc = "scatter"
    /\ \E q \in Samples :
        /\ ~InUnitSphere(q)
        /\ p' = q
    /\ UNCHANGED <<world, pc, ray, t_min, t_max, obj, hit, depth, scattered,
                   stack, ret, color, depth0, calls, hitCalls, scatterCalls>>
    /\ UNCHANGED frameVars

DrawAccept(Samples) ==
    /\ pc = "scatter"
    /\ \E q \in Samples :
        /\ InUnitSphere(q)
        /\ p' = q
        /\ scattered' = MaterialScatter(hit[1].material, ray, hit[1], q)
    /\ pc' = "scattered"
    /\ UNCHANGED <<world, ray, t_min, t_max, obj, hit, depth, stack, ret,
                   color, depth0, calls, hitCalls, scatterCalls>>
    /\ UNCHANGED frameVars

\* Components in {-1, -1/2, 0, 1/2}.
CubeCoords ==
    { R(-1), Q(-1, 2), Zero, Q(1, 2) }

CubeSamples ==
    { Vec(x, y, z) : x \in CubeCoords, y \in CubeCoords, z \in CubeCoords }

\* Incoming directions and hit normals of the scatter calls: unit normals,
\* and normals that are not unit (which no Sphere::hit returns).
ScatterDirections ==
    { VInt(0, -1, 0), VInt(1, -1, 0), VInt(0, 1, 0), VInt(0, -2, 1), VInt(1, 0, 0) }

ScatterNormals ==
    { VInt(0, 1, 0), VInt(0, 0, -1), Vec(Q(3, 5), Q(4, 5), Zero),
      Vec(Zero, Q(1, 2), Zero), Vec(Q(1, 2), Zero, Q(1, 2)), VInt(0, 0, 0) }

ScatterMaterials ==
    { Lambertian(Grey), Metal(Red, Zero), Metal(Purple, One), Metal(Grey, Q(1, 2)) }

ScatterPoint ==
    VInt(0, -2, 0)

InitScatter ==
    /\ world = <<>>
    /\ ray \in { Ray(Origin3, d) : d \in ScatterDirections }
    /\ hit \in { Some([t |-> R(2), point |-> ScatterPoint, normal |-> n,
                       front_face |-> TRUE, material |-> m]) :
                     n \in ScatterNormals, m \in ScatterMaterials }
    /\ t_min = ShadowAcneTMin
    /\ t_max = F64_MAX
    /\ obj = 0
    /\ pc = "scatter"
    /\ IdleRest
    /\ IdleFrame

NextScatter ==
    \/ DrawReject(CubeSamples)
    \/ DrawAccept(CubeSamples)

ScatterSpec ==
    InitScatter /\ [][NextScatter]_vars

----------------------------------------------------------------------------
(* Camera::ray_color: one top-level call and the calls it makes.           *)

MaxDepth ==
    3

\* Spheres centred on the line x = 0, z = 0 along which the traced rays
\* travel: a diffuse sphere below, a mirror above, a rough metal sphere
\* entered at the same point as the diffuse one, a sphere that encloses
\* the origin, and one whose albedo exceeds 1 in the red channel.
TraceSpheres ==
    { Sphere(VInt(0, -3, 0), R(1), Lambertian(Grey)),
      Sphere(VInt(0, 3, 0), R(1), Metal(Red, Zero)),
      Sphere(VInt(0, -4, 0), R(2), Metal(Purple, One)),
      Sphere(VInt(0, 0, 0), R(4), Lambertian(White)),
      Sphere(VInt(0, 9, 0), R(1), Lambertian(Overbright)) }

TraceRays ==
    { Ray(VInt(0, 0, 0), VInt(0, 1, 0)),
      Ray(VInt(0, 0, 0), VInt(0, -2, 0)),
      Ray(VInt(0, 6, 0), VInt(0, -1, 0)) }

\* Samples on the same line: (0, -1, 0) is rejected, the others accepted.
AxisSamples ==
    { Vec(Zero, y, Zero) : y \in CubeCoords }

\* Two mirrors (metal of roughness 0) away from that line, and a ray that the
\* first reflects onto the second and the second reflects to the sky: the
\* ray enters the first at (3, 4, 0), leaves along (24/25, 7/25, 0), enters
\* the second at (27, 11, 0) and leaves along (0, -1, 0).
MirrorSpheres ==
    { Sphere(VInt(0, 0, 0), R(5), Metal(Grey, Zero)),
      Sphere(VInt(30, 15, 0), R(5), Metal(Purple, Zero)) }

MirrorRays ==
    { Ray(VInt(3, 10, 0), VInt(0, -1, 0)) }

Init ==
    /\ \/ world \in SeqsUpTo(TraceSpheres, MaxObjects) /\ ray \in TraceRays
       \/ world \in SeqsUpTo(MirrorSpheres, MaxObjects) /\ ray \in MirrorRays
    /\ depth \in {-1} \cup 0..MaxDepth
    /\ depth0 = depth
    /\ t_min = ShadowAcneTMin
    /\ t_max = F64_MAX
    /\ obj = 0
    /\ hit = None
    /\ p = Origin3
    /\ scattered = None
    /\ stack = <<>>
    /\ ret = Black
    /\ color = Black
    /\ calls = 0
    /\ hitCalls = 0
    /\ scatterCalls = 0
    /\ pc = "call"
    /\ IdleFrame

RayColorEnter ==
    /\ pc = "call"
    /\ calls' = calls + 1
    /\ IF DepthExhausted(depth)
       THEN /\ ret' = Black
            /\ pc' = "ret"
            /\ UNCHANGED <<hit, hitCalls, scatterCalls>>
       ELSE LET h == WorldHit(world, ray, t_min, t_max)
            IN  /\ hit' = h
                /\ hitCalls' = hitCalls + 1
                /\ IF IsSome(h)
                   THEN /\ scatterCalls' = scatterCalls + 1
                        /\ pc' = "scatter"
                        /\ ret' = ret
                   ELSE /\ ret' = SkyColor(ray)
                        /\ pc' = "ret"
                        /\ scatterCalls' = scatterCalls
    /\ UNCHANGED <<world, ray, t_min, t_max, obj, depth, p, scattered, stack,
                   color, depth0>>
    /\ UNCHANGED frameVars

RayColorRecurse ==
    /\ pc = "scattered"
    /\ IF IsSome(scattered)
       THEN /\ stack' = Append(stack, scattered[1][2])
            /\ ray' = scattered[1][1]
            /\ depth' = NextDepth(depth)
            /\ pc' = "call"
            /\ ret' = ret
       ELSE /\ ret' = Black
            /\ pc' = "ret"
            /\ UNCHANGED <<stack, ray, depth>>
    /\ UNCHANGED <<world, t_min, t_max, obj, hit, p, scattered, color, depth0,
                   calls, hitCalls, scatterCalls>>
    /\ UNCHANGED frameVars

RayColorReturn ==
    /\ pc = "ret"
    /\ IF stack = <<>>
       THEN /\ color' = ret
            /\ pc' = "done"
            /\ UNCHANGED <<ret, stack, depth>>
       ELSE /\ ret' = Attenuate(stack[Len(stack)], ret)
            /\ stack' = SubSeq(stack, 1, Len(stack) - 1)
            /\ depth' = depth + 1
            /\ UNCHANGED <<color, pc>>
    /\ UNCHANGED <<world, ray, t_min, t_max, obj, hit, p, scattered, depth0,
                   calls, hitCalls, scatterCalls>>
    /\ UNCHANGED frameVars

Next ==
    \/ RayColorEnter
    \/ DrawReject(AxisSamples)
    \/ DrawAccept(AxisSamples)
    \/ RayColorRecurse
    \/ RayColorReturn

Spec ==
    Init /\ [][Next]_vars

\* The random source is uniform, so the rejection loop cannot reject for
\* ever; everything else is straight-line code.
FairSpec ==
    Spec /\ WF_vars(RayColorEnter) /\ WF_vars(DrawAccept(AxisSamples))
         /\ WF_vars(RayColorRecurse) /\ WF_vars(RayColorReturn)

----------------------------------------------------------------------------
(* Intersections stated geometrically, without the quadratic formula: the  *)
(* parameters t, among a grid of candidates, at which the point            *)
(* origin + t * direction lies on the sphere.                              *)

TNum ==
    12

TDen ==
    5

TCandidates ==
    {Q(n, d) : n \in (0 - TNum)..TNum, d \in 1..TDen}

OnSphere(s, r, t) ==
    LengthSquared(Sub(At(r, t), s.center)) = RMul(s.radius, s.radius)

Roots(s, r) ==
    {t \in TCandidates : OnSphere(s, r, t)}

RootsIn(s, r, lo, hi) ==
    {t \in Roots(s, r) : RLt(lo, t) /\ RLt(t, hi)}

OriginOutside(s, r) ==
    RLt(RMul(s.radius, s.radius), LengthSquared(Sub(r.origin, s.center)))

\* C1 (as claimed): World.hit returns the record with the least t among all
\* the intersections of the ray with the primitives that lie strictly inside
\* (t_min, t_max), and None exactly when there is no such intersection.
C1_WorldHitNearestIntersection ==
    pc = "world" =>
        LET ts == UNION {RootsIn(world[i], ray, t_min, t_max) : i \in 1..Len(world)}
        IN  IF ts = {}
            THEN hit = None
            ELSE /\ IsSome(hit)
                 /\ hit[1].t \in ts
                 /\ \A t \in ts : RLe(hit[1].t, t)

\* C2: when several primitives are hit at the same smallest t, World.hit
\* returns the record of the earliest inserted of them (and in general the
\* record of the first primitive among those whose own hit has the least t).
C2_TieKeepsEarliest ==
    pc = "world" =>
        LET H == {i \in 1..Len(world) : IsSome(SphereHit(world[i], ray, t_min, t_max))}
            T(i) == SphereHit(world[i], ray, t_min, t_max)[1].t
            best == {i \in H : \A j \in H : RLe(T(i), T(j))}
        IN  IF H = {}
            THEN hit = None
            ELSE LET first == CHOOSE i \in best : \A j \in best : i <= j
                 IN  hit = SphereHit(world[first], ray, t_min, t_max)

\* C2 witness: two primitives are hit at the same smallest t with different
\* records, and World.hit has returned the record of the earlier one.
C2_Witness ==
    /\ pc = "world"
    /\ Len(world) = 2
    /\ IsSome(SphereHit(world[1], ray, t_min, t_max))
    /\ IsSome(SphereHit(world[2], ray, t_min, t_max))
    /\ SphereHit(world[1], ray, t_min, t_max)[1].t = SphereHit(world[2], ray, t_min, t_max)[1].t
    /\ SphereHit(world[1], ray, t_min, t_max) # SphereHit(world[2], ray, t_min, t_max)
    /\ hit = SphereHit(world[1], ray, t_min, t_max)

\* C3 (as claimed): Sphere.hit returns Some exactly when the ray meets the
\* sphere at some t strictly inside (t_min, t_max); when the nearer
\* intersection is outside the interval and the farther one inside it, the
\* result is Some with t the farther one.
C3_SphereHitIffIntersection ==
    pc = "sphere" =>
        LET all == Roots(world[obj], ray)
            ts == RootsIn(world[obj], ray, t_min, t_max)
        IN  /\ IsSome(hit) <=> ts # {}
            /\ \A near, far \in all :
                   (RLt(near, far) /\ near \notin ts /\ far \in ts)
                       => (IsSome(hit) /\ hit[1].t = far)

\* C4: a record returned by Sphere.hit stores a normal that opposes the ray,
\* dot(ray.direction, normal) <= 0: the outward normal
\* (hit_point - center) / radius when front_face, its negation otherwise.
C4_NormalOpposesRay ==
    /\ (pc \in {"sphere", "world"} /\ IsSome(hit))
           => RLe(Dot(ray.direction, hit[1].normal), Zero)
    /\ (pc = "sphere" /\ IsSome(hit))
           => LET outward == DivScalar(Sub(hit[1].point, world[obj].center),
                                       world[obj].radius)
              IN  hit[1].normal = IF hit[1].front_face THEN outward ELSE Neg(outward)

\* C4 witness: Sphere.hit has returned a record whose normal strictly
\* opposes the ray.
C4_Witness ==
    /\ pc = "sphere"
    /\ IsSome(hit)
    /\ RLt(Dot(ray.direction, hit[1].normal), Zero)

----------------------------------------------------------------------------
(* Claims about Camera::ray_color.                                         *)

RecursiveCalls ==
    IF calls = 0 THEN 0 ELSE calls - 1

InUnitRange(c) ==
    \A i \in 1..3 : RLe(Zero, c[i]) /\ RLe(c[i], One)

AlbedosInUnitRange ==
    \A i \in 1..Len(world) : InUnitRange(world[i].material.albedo)

\* C6: a top-level ray_color call with depth d >= 0 makes at most d
\* recursive ray_color calls, each recursion passes depth - 1, and the call
\* terminates (the rejection loop of random_in_unit_sphere included, the
\* random source being fair).
C6_BoundedTermination ==
    /\ [](depth0 >= 0 => RecursiveCalls <= depth0)
    /\ [][(pc = "scattered" /\ pc' = "call") => depth' = depth - 1]_vars
    /\ <>(pc = "done")

\* C6 witness: a finished trace that made exactly depth0 recursive calls,
\* the most the claim allows, for the largest starting depth.
C6_Witness ==
    /\ pc = "done"
    /\ depth0 = MaxDepth
    /\ RecursiveCalls = depth0

\* C7: ray_color called with depth <= 0 returns exactly black without
\* consulting the world or a material; so a path that scatters on every
\* bounce down to depth 0 contributes exactly black.
C7_DepthZeroIsBlack ==
    /\ (pc = "done" /\ depth0 <= 0)
           => (color = Black /\ hitCalls = 0 /\ scatterCalls = 0)
    /\ (pc = "ret" /\ depth <= 0) => ret = Black
    /\ (pc = "done" /\ depth0 >= 0) => hitCalls <= depth0
    /\ (pc = "done" /\ depth0 >= 0 /\ scatterCalls = depth0) => color = Black

\* C7 witness: a finished trace of positive depth that scattered on every
\* bounce, down to depth 0, and returned black.
C7_Witness ==
    /\ pc = "done"
    /\ depth0 >= 2
    /\ scatterCalls = depth0
    /\ stack = <<>>
    /\ color = Black

\* C8: if every albedo channel of the world's materials is in [0, 1], every
\* colour ray_color returns (to its caller or to a recursive call) has every
\* channel in [0, 1].
C8_ColourInUnitRange ==
    AlbedosInUnitRange =>
        /\ pc = "ret" => InUnitRange(ret)
        /\ pc = "done" => InUnitRange(color)

\* C8 witness: a finished trace in a world of albedos <= 1 that bounced at
\* least twice and returned a colour that is neither black nor the sky's.
C8_Witness ==
    /\ pc = "done"
    /\ AlbedosInUnitRange
    /\ calls >= 3
    /\ color # Black
    /\ \E i \in 1..3 : RLt(Zero, color[i]) /\ RLt(color[i], Q(1, 2))

----------------------------------------------------------------------------
(* Claims about Material::scatter.                                         *)

\* C9: Metal.scatter returns Some((scattered, albedo)) iff the direction
\* d = v - 2 (v . n) n + roughness * rnd has dot(d, n) > 0, and None
\* otherwise (dot = 0 included); a returned ray starts at the hit point.
C9_MetalScatterIffLeaves ==
    (pc = "scattered" /\ hit[1].material.kind = "Metal") =>
        LET v == ray.direction
            n == hit[1].normal
            k == hit[1].material.roughness
            vn == RAdd(RAdd(RMul(v[1], n[1]), RMul(v[2], n[2])), RMul(v[3], n[3]))
            d == [i \in 1..3 |->
                     RAdd(RSub(v[i], RMul(RMul(R(2), vn), n[i])), RMul(k, p[i]))]
            dn == RAdd(RAdd(RMul(d[1], n[1]), RMul(d[2], n[2])), RMul(d[3], n[3]))
        IN  /\ IsSome(scattered) <=> RLt(Zero, dn)
            /\ IsSome(scattered) =>
                   /\ scattered[1][1].origin = hit[1].point
                   /\ scattered[1][1].direction = <<d[1], d[2], d[3]>>
                   /\ scattered[1][2] = hit[1].material.albedo

\* C9 witness: a rough metal has scattered a ray, with a random vector that
\* is not zero, off a unit normal.
C9_Witness ==
    /\ pc = "scattered"
    /\ hit[1].material.kind = "Metal"
    /\ hit[1].material.roughness # Zero
    /\ LengthSquared(hit[1].normal) = One
    /\ p # Origin3
    /\ IsSome(scattered)

\* C10: Lambertian.scatter always returns Some, with attenuation the
\* albedo and a ray from the hit point with direction normal + rnd, or
\* exactly the normal when that sum is near_zero; the direction is never
\* near-zero when the normal is a unit vector.
C10_LambertianNeverAbsorbs ==
    (pc = "scattered" /\ hit[1].material.kind = "Lambertian") =>
        LET n == hit[1].normal
            sum == <<RAdd(n[1], p[1]), RAdd(n[2], p[2]), RAdd(n[3], p[3])>>
        IN  /\ IsSome(scattered)
            /\ scattered[1][2] = hit[1].material.albedo
            /\ scattered[1][1].origin = hit[1].point
            /\ scattered[1][1].direction = IF NearZero(sum) THEN n ELSE sum
            /\ LengthSquared(n) = One => ~NearZero(scattered[1][1].direction)

\* C10 witness: normal + rnd was near zero and the scattered direction is
\* the normal.
C10_Witness ==
    /\ pc = "scattered"
    /\ hit[1].material.kind = "Lambertian"
    /\ NearZero(Add(hit[1].normal, p))
    /\ hit[1].normal # Origin3
    /\ IsSome(scattered)
    /\ scattered[1][1].direction = hit[1].normal

----------------------------------------------------------------------------
(* The sampler, AntiAliasing::anti_alias, and the frame driver,            *)
(* Camera::render.  The radiance a trace returns is an input here: any of  *)
(* RadianceSamples, whatever ray was traced (Spec above models the trace). *)

MaxWidth ==
    2

MaxPixels ==
    4

MaxSamples ==
    2

\* f64 division by zero: 0/0 is NaN, x/0 is an infinity of the sign of x.
\* No number of the model is below, above or equal to NaN under RLt.
NaN ==
    <<0, 0>>

Infinity ==
    <<1, 0>>

F64Div(x, y) ==
    The({ (IF b # Zero THEN RDiv(a, b)
           ELSE IF a = Zero THEN NaN
           ELSE IF RLt(Zero, a) THEN Infinity ELSE <<-1, 0>>) :
          a \in {x}, b \in {y} })

\* f64::round of a number that is not negative: halves go away from zero.
Round(x) ==
    The({ (2 * a[1] + a[2]) \div (2 * a[2]) : a \in {x} })

CameraConfig(aspect, width) ==
    [aspect |-> aspect, image_width |-> width]

\* Camera::new: image_height = round(image_width / aspect).
ImageHeight(config) ==
    Round(RDiv(R(config.image_width), config.aspect))

Aspects ==
    { One, R(2), R(4), Q(1, 2), Q(3, 2) }

CameraConfigs ==
    { CameraConfig(a, w) : a \in Aspects, w \in 1..MaxWidth }

Techniques ==
    { "SuperSampling", "MonteCarlo", "Spatial", "Temporal", "None" }

\* rng.gen::<f64>() returns a number in [0, 1).
Jitters ==
    { Zero, Q(1, 2) }

\* Colours a trace can return: k * (1/4, 1/16, 1/64) for k in 0..4.  The
\* three channels differ, and some means of unequal samples have exact
\* square roots.
RadianceSamples ==
    { Srgb(Q(k, 4), Q(k, 16), Q(k, 64)) : k \in 0..4 }

SuperSamplingDepth ==
    50

SingleSampleDepth ==
    50

\* One iteration's inputs: its two draws and the colour its trace returns.
SampleInputs ==
    { [xi_x |-> jx, xi_y |-> jy, c |-> c] :
          jx \in Jitters, jy \in Jitters, c \in RadianceSamples }

\* u and v of a supersampling iteration.
SampleU(x, xi, width) ==
    F64Div(RAdd(R(x), xi), RSub(R(width), One))

SampleV(y, xi, height) ==
    F64Div(RSub(R(height), RAdd(R(y), xi)), RSub(R(height), One))

PixelUCentred(x, width) ==
    F64Div(RAdd(R(x), Q(1, 2)), RSub(R(width), One))

\* u and v of the default branch.
PixelU(x, width) ==
    F64Div(R(x), RSub(R(width), One))

PixelV(y, height) ==
    F64Div(RSub(R(height), R(y)), RSub(R(height), One))

\* A ray_color call: the coordinates given to get_ray, the depth, and the
\* colour returned.
Trace(u, v, d, c) ==
    [u |-> u, v |-> v, depth |-> d, c |-> c]

\* pixel_colors[i] after the first k iterations.
RECURSIVE PixelColors(_, _, _)
PixelColors(samples, i, k) ==
    IF k = 0 THEN Zero
    ELSE RAdd(PixelColors(samples, i, k - 1), samples[k].c[i])

Scale(n) ==
    RDiv(One, R(n))

\* The averaged channel whose square root is the colour returned.
Averaged(samples, i) ==
    RMul(Scale(Len(samples)), PixelColors(samples, i, Len(samples)))

GammaUncorrected(x) ==
    x

Gamma(x) ==
    RSqrt(x)

SuperSamplingColor(samples) ==
    Srgb(Gamma(Averaged(samples, 1)),
         Gamma(Averaged(samples, 2)),
         Gamma(Averaged(samples, 3)))

SuperSamplingTraces(x, y, width, height, samples) ==
    [s \in 1..Len(samples) |->
        Trace(SampleU(x, samples[s].xi_x, width),
              SampleV(y, samples[s].xi_y, height),
              SuperSamplingDepth, samples[s].c)]

\* Every square root anti_alias takes for these samples is exact.
ExactGamma(samples) ==
    \A i \in 1..3 : RIsSquare(Averaged(samples, i))

\* color.into_format().into_raw(): each channel to a byte.
QuantizeChannel(x) ==
    The({ (IF (256 * a[1]) \div a[2] > 255 THEN 255
           ELSE IF (256 * a[1]) \div a[2] < 0 THEN 0
           ELSE (256 * a[1]) \div a[2]) : a \in {x} })

Quantize(c) ==
    <<QuantizeChannel(c[1]), QuantizeChannel(c[2]), QuantizeChannel(c[3])>>

\* The variables Camera::render and anti_alias leave alone.
RenderRest ==
    <<estimatorVars, ray, mainVars, rayVars>>

\* Camera::render, line 146: the buffer of zeros; then the loops begin.
RenderStart ==
    /\ pc = "render"
    /\ pixels' = [o \in 1..(image_width * image_height * 3) |-> 0]
    /\ writes' = <<>>
    /\ pixel_x' = 0
    /\ pixel_y' = 0
    /\ pc' = IF image_height > 0 /\ image_width > 0 THEN "pixel" ELSE "rendered"
    /\ UNCHANGED <<image_width, image_height, technique, samples_per_pixel,
                   traces, draws, color>>
    /\ UNCHANGED RenderRest

\* AntiAliasing::anti_alias for the pixel (pixel_x, pixel_y).
CallAntiAlias ==
    /\ pc = "pixel"
    /\ IF technique = "SuperSampling"
       THEN \E samples \in [1..samples_per_pixel -> SampleInputs] :
                /\ ExactGamma(samples)
                /\ traces' = SuperSamplingTraces(pixel_x, pixel_y, image_width,
                                                 image_height, samples)
                /\ draws' = 2 * Len(samples)
                /\ color' = SuperSamplingColor(samples)
       ELSE \E c \in RadianceSamples :
                /\ traces' = << Trace(PixelU(pixel_x, image_width),
                                      PixelV(pixel_y, image_height),
                                      SingleSampleDepth, c) >>
                /\ draws' = 0
                /\ color' = c
    /\ pc' = "color"
    /\ UNCHANGED <<image_width, image_height, technique, samples_per_pixel,
                   pixel_x, pixel_y, pixels, writes>>
    /\ UNCHANGED RenderRest

PixelIndexColumnMajor(x, y, width) ==
    x * width + y

PixelIndex(x, y, width) ==
    y * width + x

\* Camera::render, lines 152-156, and the step of the two loops.
StorePixel ==
    /\ pc = "color"
    /\ LET i == PixelIndex(pixel_x, pixel_y, image_width)
           pixel == Quantize(color)
       IN  /\ pixels' = [pixels EXCEPT ![i * 3 + 1] = pixel[1],
                                       ![i * 3 + 1 + 1] = pixel[2],
                                       ![i * 3 + 2 + 1] = pixel[3]]
           /\ writes' = writes \o <<i * 3, i * 3 + 1, i * 3 + 2>>
    /\ IF pixel_x + 1 < image_width
       THEN /\ pixel_x' = pixel_x + 1
            /\ pixel_y' = pixel_y
            /\ pc' = "pixel"
       ELSE IF pixel_y + 1 < image_height
            THEN /\ pixel_x' = 0
                 /\ pixel_y' = pixel_y + 1
                 /\ pc' = "pixel"
            ELSE /\ pc' = "rendered"
                 /\ UNCHANGED <<pixel_x, pixel_y>>
    /\ UNCHANGED <<image_width, image_height, technique, samples_per_pixel,
                   traces, draws, color>>
    /\ UNCHANGED RenderRest

InitRender ==
    /\ \E config \in CameraConfigs :
        /\ image_width = config.image_width
        /\ image_height = ImageHeight(config)
    /\ image_width * image_height <= MaxPixels
    /\ technique \in Techniques
    /\ samples_per_pixel \in 1..MaxSamples
    /\ pixel_x = 0
    /\ pixel_y = 0
    /\ pixels = <<>>
    /\ writes = <<>>
    /\ traces = <<>>
    /\ draws = 0
    /\ pc = "render"
    /\ world = <<>>
    /\ ray = Ray(Origin3, Origin3)
    /\ t_min = ShadowAcneTMin
    /\ t_max = F64_MAX
    /\ obj = 0
    /\ hit = None
    /\ IdleRest
    /\ IdleMain
    /\ IdleRay

NextRender ==
    \/ RenderStart
    \/ CallAntiAlias
    \/ StorePixel

RenderSpec ==
    InitRender /\ [][NextRender]_vars

----------------------------------------------------------------------------
(* Claims about the frame driver and the sampler.                          *)

\* The offsets of pixel (x, y): 3 * (y * image_width + x) and the two after.
OffsetOf(x, y, channel) ==
    3 * (y * image_width + x) + channel

TimesWritten(offset) ==
    Cardinality({ k \in 1..Len(writes) : writes[k] = offset })

\* C11: Camera.render builds a buffer of image_width * image_height * 3
\* bytes and never stores outside it; each store puts the R, G, B bytes of
\* the pixel's colour at offsets 3 * (y * image_width + x) + 0, 1, 2; and
\* when render completes every pixel's three offsets have been written
\* exactly once, so no byte of the buffer is left unwritten.
C11_RenderFillsBuffer ==
    /\ pc \in {"pixel", "color", "rendered"}
           => /\ Len(pixels) = image_width * image_height * 3
              /\ \A k \in 1..Len(writes) : writes[k] \in 0..(Len(pixels) - 1)
    /\ (pc \in {"pixel", "rendered"} /\ writes # <<>>)
           => \E x \in 0..(image_width - 1), y \in 0..(image_height - 1) :
                  /\ SubSeq(writes, Len(writes) - 2, Len(writes))
                         = <<OffsetOf(x, y, 0), OffsetOf(x, y, 1), OffsetOf(x, y, 2)>>
                  /\ \A channel \in 0..2 :
                         pixels[OffsetOf(x, y, channel) + 1]
                             = QuantizeChannel(color[channel + 1])
    /\ pc = "rendered"
           => /\ \A x \in 0..(image_width - 1), y \in 0..(image_height - 1) :
                     \A channel \in 0..2 : TimesWritten(OffsetOf(x, y, channel)) = 1
              /\ \A offset \in 0..(Len(pixels) - 1) : TimesWritten(offset) = 1

\* C11 witness: a render of a 2 x 2 image has completed, and the last
\* pixel's three bytes differ.
C11_Witness ==
    /\ pc = "rendered"
    /\ image_width = 2
    /\ image_height = 2
    /\ Len(pixels) = 12
    /\ pixels[10] # pixels[11]
    /\ pixels[11] # pixels[12]

\* C12: with technique None, whatever samples_per_pixel is, anti_alias
\* makes exactly one ray_color call and no random draw, at
\* u = x / (image_width - 1) and v = (image_height - y) / (image_height - 1),
\* and returns the colour that call returned.
C12_SingleSampleIsOneEvaluation ==
    (pc = "color" /\ technique = "None")
        => /\ Len(traces) = 1
           /\ draws = 0
           /\ traces[1].u = F64Div(R(pixel_x), R(image_width - 1))
           /\ traces[1].v = F64Div(R(image_height - pixel_y), R(image_height - 1))
           /\ color = traces[1].c

\* C12 witness: technique None with samples_per_pixel = 2 has coloured
\* the pixel (1, 1) of a 2 x 2 image.
C12_Witness ==
    /\ pc = "color"
    /\ technique = "None"
    /\ samples_per_pixel = 2
    /\ image_width = 2
    /\ image_height = 2
    /\ pixel_x = 1
    /\ pixel_y = 1
    /\ color # Black

\* The sum of channel i over the first k ray_color calls of the pixel.
RECURSIVE TraceSum(_, _)
TraceSum(i, k) ==
    IF k = 0 THEN Zero ELSE RAdd(TraceSum(i, k - 1), traces[k].c[i])

\* The jitter a trace's coordinate was computed from.
JitterOfU(trace) ==
    RSub(RMul(trace.u, R(image_width - 1)), R(pixel_x))

JitterOfV(trace) ==
    RSub(RSub(R(image_height), RMul(trace.v, R(image_height - 1))), R(pixel_y))

InUnitInterval(x) ==
    RLe(Zero, x) /\ RLt(x, One)

C14_GammaBeforeQuantize ==
    pc = "color"
        => \A i \in 1..3 :
               RMul(RMul(color[i], color[i]), R(Len(traces)))
                   = TraceSum(i, Len(traces))

\* C18 (as claimed): the divisors image_width - 1 and image_height - 1 are
\* not zero, and the coordinates of every ray_color call of a pixel lie in
\* [0, 1].
C18_SamplerCoordinatesInUnitSquare ==
    pc = "color"
        => /\ image_width - 1 # 0
           /\ image_height - 1 # 0
           /\ \A k \in 1..Len(traces) :
                  /\ RLe(Zero, traces[k].u) /\ RLe(traces[k].u, One)
                  /\ RLe(Zero, traces[k].v) /\ RLe(traces[k].v, One)

----------------------------------------------------------------------------
(* The program entry, main, and Camera::write_image.  The camera and the   *)
(* sample count are small here (main builds an 800 x 600 camera with 10    *)
(* samples); creating the file and encoding may each fail.                 *)

Hello ==
    "Hello, world!"

Usage(program) ==
    <<"Usage: ", program, " <output_file>">>

\* env::args(): the program name, then the arguments given.
ArgLists ==
    { <<"ray_tracer">>, <<"ray_tracer", "out.png">>,
      <<"ray_tracer", "out.png", "extra">> }

\* The output path names no file, or a file that exists.
FilesBefore ==
    { "absent", "old" }

ExpectIgnoresErr(res) ==
    "exit"

\* .expect("Failed to write image"): Ok goes on to the end of main, Err
\* panics with that message.
Expect(res) ==
    IF res = "Ok" THEN "exit" ELSE "panic"

\* The variables main and write_image leave alone, render's aside.
MainRest ==
    <<estimatorVars, ray, color, rayVars>>

\* main, lines 13-19: the greeting, the test of the argument count, the
\* usage message and the return.
MainCheckArgs ==
    /\ pc = "main"
    /\ IF Len(args) # 2
       THEN /\ stdout' = stdout \o <<Hello, Usage(args[1])>>
            /\ pc' = "exit"
       ELSE /\ stdout' = Append(stdout, Hello)
            /\ pc' = "render"
    /\ UNCHANGED <<args, file, result>>
    /\ UNCHANGED renderVars
    /\ UNCHANGED MainRest

\* Camera::write_image, line 170: File::create(filename)?
WriteImageCreate ==
    /\ pc = "rendered"
    /\ Len(args) = 2
    /\ \E created \in BOOLEAN :
        IF created
        THEN /\ file' = "empty"
             /\ pc' = "encode"
             /\ result' = result
        ELSE /\ file' = file
             /\ pc' = "returned"
             /\ result' = "Err"
    /\ UNCHANGED <<args, stdout>>
    /\ UNCHANGED renderVars
    /\ UNCHANGED MainRest

\* Camera::write_image, lines 171-173: encoder.encode(...)? and Ok(()).
WriteImageEncode ==
    /\ pc = "encode"
    /\ \E encoded \in BOOLEAN :
        IF encoded
        THEN /\ file' = "png"
             /\ result' = "Ok"
        ELSE /\ file' \in {"empty", "partial"}
             /\ result' = "Err"
    /\ pc' = "returned"
    /\ UNCHANGED <<args, stdout>>
    /\ UNCHANGED renderVars
    /\ UNCHANGED MainRest

\* main, lines 67-69.
MainExpect ==
    /\ pc = "returned"
    /\ pc' = Expect(result)
    /\ UNCHANGED <<args, file, result, stdout>>
    /\ UNCHANGED renderVars
    /\ UNCHANGED MainRest

InitMain ==
    /\ args \in ArgLists
    /\ file \in FilesBefore
    /\ result = "unset"
    /\ stdout = <<>>
    /\ \E config \in CameraConfigs :
        /\ image_width = config.image_width
        /\ image_height = ImageHeight(config)
    /\ image_width * image_height <= MaxPixels
    /\ technique = "SuperSampling"
    /\ samples_per_pixel \in 1..MaxSamples
    /\ pixel_x = 0
    /\ pixel_y = 0
    /\ pixels = <<>>
    /\ writes = <<>>
    /\ traces = <<>>
    /\ draws = 0
    /\ pc = "main"
    /\ world = <<>>
    /\ ray = Ray(Origin3, Origin3)
    /\ t_min = ShadowAcneTMin
    /\ t_max = F64_MAX
    /\ obj = 0
    /\ hit = None
    /\ IdleRest
    /\ IdleRay

NextMain ==
    \/ MainCheckArgs
    \/ RenderStart
    \/ CallAntiAlias
    \/ StorePixel
    \/ WriteImageCreate
    \/ WriteImageEncode
    \/ MainExpect

MainSpec ==
    InitMain /\ [][NextMain]_vars

\* C15: main checks the arguments, renders, then writes.  With an argument
\* count other than 2 it prints the usage message and returns, having
\* rendered nothing and left the output file as it was.  The file is
\* touched only once render has returned its complete buffer.  A failure
\* to create or to encode is returned by write_image as Err, and main then
\* panics ("Failed to write image"); main ends normally after a render only
\* when write_image returned Ok and the file is the encoded image.
C15_CheckRenderWrite ==
    /\ (Len(args) # 2 /\ pc # "main")
           => /\ pc = "exit"
              /\ stdout[Len(stdout)] = Usage(args[1])
              /\ file \in FilesBefore
              /\ pixels = <<>>
              /\ writes = <<>>
              /\ traces = <<>>
    /\ (file \notin FilesBefore \/ pc \in {"encode", "returned", "panic"})
           => /\ Len(args) = 2
              /\ Len(pixels) = image_width * image_height * 3
              /\ Len(writes) = Len(pixels)
              /\ pc \in {"encode", "returned", "exit", "panic"}
    /\ pc = "returned"
           => /\ result \in {"Ok", "Err"}
              /\ result = "Ok" <=> file = "png"
    /\ pc = "panic" => result = "Err"
    /\ (pc = "exit" /\ Len(args) = 2) => (result = "Ok" /\ file = "png")

\* C15 witness: after a complete render of a 2 x 2 image the encoding
\* failed, write_image returned Err and main has panicked.
C15_Witness ==
    /\ pc = "panic"
    /\ result = "Err"
    /\ file = "partial"
    /\ Len(pixels) = 12
    /\ Len(writes) = 12

----------------------------------------------------------------------------
(* Tangent, central and missing rays, stated by the point of the ray's     *)
(* line that is closest to the sphere's centre.                            *)

\* The parameter of that point.
ClosestApproach(s, r) ==
    RDiv(RNeg(Dot(Sub(r.origin, s.center), r.direction)),
         LengthSquared(r.direction))

\* The square of the distance from the centre to the line.
MissDistanceSquared(s, r) ==
    LengthSquared(Sub(At(r, ClosestApproach(s, r)), s.center))

Tangent(s, r) ==
    MissDistanceSquared(s, r) = RMul(s.radius, s.radius)

ThroughCentre(s, r) ==
    MissDistanceSquared(s, r) = Zero

\* C16 (as claimed): Sphere.hit returns Some with the tangent parameter for
\* a tangent ray whose tangent parameter lies in (t_min, t_max); a ray from
\* outside towards the centre is hit at distance |oc| - r when that lies in
\* the interval; a ray whose line passes the sphere farther than the
\* radius returns None.
C16_TangentCentralMissing ==
    pc = "sphere" =>
        LET s == world[obj]
            tangent_t == ClosestApproach(s, ray)
        IN  /\ (Tangent(s, ray) /\ RLt(t_min, tangent_t) /\ RLt(tangent_t, t_max))
                   => (IsSome(hit) /\ hit[1].t = tangent_t)
            /\ (ThroughCentre(s, ray) /\ OriginOutside(s, ray) /\ RLt(Zero, tangent_t))
                   => LET distance == RSub(Length(Sub(ray.origin, s.center)), s.radius)
                          central_t == RDiv(distance, Length(ray.direction))
                      IN  (RLt(t_min, central_t) /\ RLt(central_t, t_max))
                              => /\ IsSome(hit)
                                 /\ hit[1].t = central_t
                                 /\ Length(Sub(hit[1].point, ray.origin)) = distance
            /\ RLt(RMul(s.radius, s.radius), MissDistanceSquared(s, ray))
                   => hit = None

----------------------------------------------------------------------------
(* Ray::new and Ray::at called on their own.                               *)

RayOrigins ==
    { VInt(0, 0, 0), VInt(1, 2, 3), Vec(Q(1, 2), R(-4), Q(3, 4)), VInt(-4, 4, 1) }

RayDirections ==
    { VInt(2, 3, 4), VInt(0, -1, 0), Vec(Q(-1, 3), Zero, Q(5, 2)), VInt(0, 0, 0) }

AtParams ==
    { Zero, One, Q(1, 2), R(-1), R(2), Q(-3, 4), Q(7, 3), R(10) }

RayRest ==
    <<estimatorVars, color, renderVars, mainVars>>

CallRayNew ==
    /\ pc = "new"
    /\ ray' = Ray(ray_args[1], ray_args[2])
    /\ pc' = "ray"
    /\ UNCHANGED <<ray_args, at_t, at_ret>>
    /\ UNCHANGED RayRest

CallRayAt ==
    /\ pc \in {"ray", "at"}
    /\ \E t \in AtParams :
        /\ at_t' = t
        /\ at_ret' = At(ray, t)
    /\ pc' = "at"
    /\ UNCHANGED <<ray, ray_args>>
    /\ UNCHANGED RayRest

InitRay ==
    /\ ray_args \in RayOrigins \X RayDirections
    /\ at_t = Zero
    /\ at_ret = Origin3
    /\ ray = Ray(Origin3, Origin3)
    /\ pc = "new"
    /\ world = <<>>
    /\ t_min = ShadowAcneTMin
    /\ t_max = F64_MAX
    /\ obj = 0
    /\ hit = None
    /\ IdleRest
    /\ IdleRender
    /\ IdleMain

NextRay ==
    \/ CallRayNew
    \/ CallRayAt

RaySpec ==
    InitRay /\ [][NextRay]_vars

\* C17: Ray::new stores the origin and the direction it is given, and
\* Ray.at(t) is origin + t * direction in each component; at(0) is the
\* origin and at(1) is origin + direction.
C17_RayAtIsOriginPlusTDirection ==
    /\ pc \in {"ray", "at"}
           => /\ ray.origin = ray_args[1]
              /\ ray.direction = ray_args[2]
    /\ pc = "at"
           => /\ \A i \in 1..3 :
                     at_ret[i] = RAdd(ray_args[1][i], RMul(at_t, ray_args[2][i]))
              /\ at_t = Zero => at_ret = ray_args[1]
              /\ at_t = One
                     => \A i \in 1..3 :
                            at_ret[i] = RAdd(ray_args[1][i], ray_args[2][i])

\* C17 witness: at(7/3) of a ray whose origin and direction have no zero
\* component has been computed.
C17_Witness ==
    /\ pc = "at"
    /\ at_t = Q(7, 3)
    /\ ray_args = <<Vec(Q(1, 2), R(-4), Q(3, 4)), VInt(2, 3, 4)>>
    /\ at_ret = Vec(Q(31, 6), R(3), Q(121, 12))

====
